---------------------------- MODULE Spec2Model ----------------------------
(***************************************************************************)
(* Background synchronisation of satisfactory-logistics: the merge         *)
(* resolver (mergeGameState), the synchronisation engine (debounced push,  *)
(* immediate push, inbound realtime updates) and the session refresh       *)
(* scheduler (AuthSessionManager).                                         *)
(*                                                                         *)
(* Seven specifications share this module:                                  *)
(*   MergeSpec   the pure functions of mergeGameState.ts on bounded inputs *)
(*   Spec        the synchronisation engine of one client on a game of its *)
(*               user, against the remote row, with other collaborators    *)
(*               writing to the row                                        *)
(*   DeleteSpec  the inbound path on a game of this user or of another     *)
(*               author, with the row updated and deleted remotely         *)
(*   MultiSpec   the debounce timer and the realtime subscription with two *)
(*               games in the store and a moving focus                     *)
(*   LiveSpec    the engine on one game under weak fairness of timers,     *)
(*               responses and notification handling                       *)
(*   ConvergeSpec  the engine on one game while a collaborator at the same *)
(*               version creates a factory of its own and pushes it        *)
(*   AuthSpec    the refresh timer of AuthSessionManager, from mount to    *)
(*               unmount                                                   *)
(* Each specification runs its own variables and leaves the others at      *)
(* rest.                                                                   *)
(***************************************************************************)
EXTENDS Integers, Sequences, FiniteSets, TLC

VARIABLES
  \* ---- merge resolver (MergeSpec) ----
  mLocal,      \* the local snapshot given to the function
  mRemote,     \* the remote snapshot given to the function
  mOut         \* the last function applied and its result

mergeVars == <<mLocal, mRemote, mOut>>

VARIABLES
  \* ---- synchronisation engine (Spec): shared application state ----
  games,       \* state.games.games: local game id -> game or Nil
  factories,   \* state.factories.factories: factory id -> factory or Nil
  solvers,     \* state.solvers.instances: factory id -> solver or Nil
  selected,    \* state.games.selected, the focused game
  session,     \* state.auth.session: the signed-in user or None
  isSaving,    \* state.gameSave.isSaving
  syncError,   \* the sync error the store holds for each game, or None
  \* ---- the engine's timers and requests ----
  debounce,    \* the lodash debounce wrapped around syncGameToRemote
  inflight,    \* push requests that await their response
  channel,     \* the channel the last run of useGameSubscription's effect
               \* opened (the one its cleanup closes), or Nil
  channels,    \* the realtime channels that are subscribed
  \* ---- the Remote Authority ----
  rows,        \* the games table: remote id -> the row's version, or Nil
  rowMax,      \* the highest version each row has carried
  notifs,      \* realtime notifications not yet delivered
  \* ---- history ----
  burst,       \* the triggerSync calls the pending debounce timer stands for
  last         \* the operation that led to this state and what it did

syncVars == <<games, factories, solvers, selected, session, isSaving, syncError,
              debounce, inflight, channel, channels, rows, rowMax, notifs, burst, last>>

VARIABLES
  \* ---- session refresh scheduler (AuthSpec) ----
  now,               \* Date.now(), in milliseconds
  tokenSession,      \* the session AuthSessionManager last gave to setSession
  timers,            \* the timeouts that are set and have not fired
  refreshTimeoutRef, \* refreshTimeoutRef.current: the last timeout set, or 0
  nextTimer,         \* the handle the next setTimeout returns
  loading,           \* getSession() has not settled yet
  refreshing,        \* the refreshSession() calls that are awaited
  mounted,           \* the effect of AuthSessionManager has not been cleaned up
  signedOut,         \* the last sign-in or sign-out event handled was SIGNED_OUT
  authLast           \* the operation that led to this state

authVars == <<now, tokenSession, timers, refreshTimeoutRef, nextTimer, loading,
              refreshing, mounted, signedOut, authLast>>

vars == <<mLocal, mRemote, mOut, games, factories, solvers, selected, session,
          isSaving, syncError, debounce, inflight, channel, channels, rows, rowMax, notifs, burst, last,
          now, tokenSession, timers, refreshTimeoutRef, nextTimer, loading,
          refreshing, mounted, signedOut, authLast>>

-----------------------------------------------------------------------------
(* Bounds of the model *)

\* factory identifiers are 1..MaxId
MaxId == 2
\* a snapshot given to the merge resolver has at most MaxLen factories
MaxLen == 2
\* time advances in steps of TickMs milliseconds
TickMs == 500
\* versions are capped: no push is started from version MaxVersion
MaxVersion == 3
\* at most MaxInflight requests await their response
MaxInflight == 2
\* at most MaxNotifs notifications are undelivered
MaxNotifs == 1
\* the number of triggerSync calls of one burst is counted up to MaxBurst
MaxBurst == 2
\* the clock of the refresh scheduler starts at StartMs milliseconds
StartMs == 1000000
\* single seconds pass during the first MaxPassMs milliseconds
MaxPassMs == 2000
\* at most MaxTimers refresh timers are set
MaxTimers == 3

-----------------------------------------------------------------------------
(* Values *)

\* an absent identifier, and an absent record
None == "none"
Nil == [nil |-> TRUE]

FactoryIds == 1..MaxId
Names == {"n1", "n2"}

SeqsUpTo(S, n) == UNION {[1..k -> S] : k \in 0..n}

Range(s) == {s[i] : i \in DOMAIN s}

\* the identifiers of a sequence of entities, in order
IdsOf(es) == [i \in DOMAIN es |-> es[i].id]

IdSet(es) == {es[i].id : i \in DOMAIN es}

UniqueIds(es) == \A i, j \in DOMAIN es : es[i].id = es[j].id => i = j

\* the entity of a sequence that carries identifier id (the first one)
EntityOf(es, id) == es[CHOOSE i \in DOMAIN es : es[i].id = id /\ \A j \in DOMAIN es : es[j].id = id => i <= j]

Count(es, id) == Cardinality({i \in DOMAIN es : es[i].id = id})

-----------------------------------------------------------------------------
(* mergeGameState.ts: the merge resolver *)

mergeGameState_keepLocal(local, remote) ==
  LET remoteFactoryIds == IdSet(remote.factories)
      remoteOnly == SelectSeq(remote.factories, LAMBDA f : f.id \notin IdSet(local.factories))
      localOnlyFactories == SelectSeq(local.factories, LAMBDA f : f.id \notin remoteFactoryIds)
  IN [game |-> [remote.game EXCEPT !.factoriesIds = remote.game.factoriesIds \o IdsOf(localOnlyFactories)],
      factories |-> SelectSeq(local.factories, LAMBDA f : f.id \in remoteFactoryIds) \o remoteOnly \o localOnlyFactories,
      solvers |-> remote.solvers]

mergeGameState_noFilter(local, remote) ==
  LET localOnlyFactories == local.factories
      localOnlyFactoryIds == IdSet(localOnlyFactories)
      localOnlySolvers == SelectSeq(local.solvers, LAMBDA s : s.id \in localOnlyFactoryIds)
      remoteSolverIds == IdSet(remote.solvers)
  IN [game |-> [remote.game EXCEPT !.factoriesIds = remote.game.factoriesIds \o IdsOf(localOnlyFactories)],
      factories |-> remote.factories \o localOnlyFactories,
      solvers |-> remote.solvers \o SelectSeq(localOnlySolvers, LAMBDA s : s.id \notin remoteSolverIds)]

mergeGameState_localFirst(local, remote) ==
  LET remoteFactoryIds == IdSet(remote.factories)
      localOnlyFactories == SelectSeq(local.factories, LAMBDA f : f.id \notin remoteFactoryIds)
      localOnlyFactoryIds == IdSet(localOnlyFactories)
      localOnlySolvers == SelectSeq(local.solvers, LAMBDA s : s.id \in localOnlyFactoryIds)
      remoteSolverIds == IdSet(remote.solvers)
  IN [game |-> [remote.game EXCEPT !.factoriesIds = IdsOf(localOnlyFactories) \o remote.game.factoriesIds],
      factories |-> localOnlyFactories \o remote.factories,
      solvers |-> remote.solvers \o SelectSeq(localOnlySolvers, LAMBDA s : s.id \notin remoteSolverIds)]

mergeGameState_allSolvers(local, remote) ==
  LET remoteFactoryIds == IdSet(remote.factories)
      localOnlyFactories == SelectSeq(local.factories, LAMBDA f : f.id \notin remoteFactoryIds)
      remoteSolverIds == IdSet(remote.solvers)
  IN [game |-> [remote.game EXCEPT !.factoriesIds = remote.game.factoriesIds \o IdsOf(localOnlyFactories)],
      factories |-> remote.factories \o localOnlyFactories,
      solvers |-> remote.solvers \o SelectSeq(local.solvers, LAMBDA s : s.id \notin remoteSolverIds)]

mergeGameState(local, remote) ==
  LET remoteFactoryIds == IdSet(remote.factories)
      localOnlyFactories == SelectSeq(local.factories, LAMBDA f : f.id \notin remoteFactoryIds)
      localOnlyFactoryIds == IdSet(localOnlyFactories)
      localOnlySolvers == SelectSeq(local.solvers, LAMBDA s : s.id \in localOnlyFactoryIds)
      mergedFactories == remote.factories \o localOnlyFactories
      remoteSolverIds == IdSet(remote.solvers)
      mergedSolvers == remote.solvers \o SelectSeq(localOnlySolvers, LAMBDA s : s.id \notin remoteSolverIds)
      mergedFactoryIds == remote.game.factoriesIds \o IdsOf(localOnlyFactories)
  IN [game |-> [remote.game EXCEPT !.factoriesIds = mergedFactoryIds],
      factories |-> mergedFactories,
      solvers |-> mergedSolvers]

hasLocalChanges_onlyNew(local, remote) ==
  \E i \in DOMAIN local.factories : local.factories[i].id \notin IdSet(remote.factories)

hasLocalChanges(local, remote) ==
  LET remoteFactoryIds == IdSet(remote.factories)
      hasLocalOnlyFactories == \E i \in DOMAIN local.factories : local.factories[i].id \notin remoteFactoryIds
  IN IF hasLocalOnlyFactories THEN TRUE
     ELSE IF Len(local.factories) # Len(remote.factories) THEN TRUE
     ELSE FALSE

getLocalOnlyFactoryIds(local, remote) ==
  LET remoteFactoryIds == IdSet(remote.factories)
  IN IdsOf(SelectSeq(local.factories, LAMBDA f : f.id \notin remoteFactoryIds))

-----------------------------------------------------------------------------
(* The synchronisation engine: values *)

\* the quiet period of the debounce
SYNC_DEBOUNCE_MS == 1000

\* the games of this client and their remote identifiers
GameIds == {"g1", "g2"}
SavedIds == {"r1", "r2"}

\* the signed-in user of this client, and another collaborator
Me == "u1"
Other == "u2"

\* the factory identifiers the games of the engine draw from
AllFactoryIds == {1}

\* the identifier of the factory a collaborator creates on its own client
\* while this client creates one of AllFactoryIds
PeerFactoryIds == {2}

\* the keys of state.factories.factories and state.solvers.instances
StoredFactoryIds == AllFactoryIds \cup PeerFactoryIds

Min(a, b) == IF a < b THEN a ELSE b
Max(a, b) == IF a > b THEN a ELSE b

RemoveAt(s, i) == [j \in 1..(Len(s) - 1) |-> IF j < i THEN s[j] ELSE s[j + 1]]

\* the last entity of a sequence that carries identifier id (a later
\* assignment to the same key overwrites an earlier one)
LastEntityOf(es, id) == es[CHOOSE i \in DOMAIN es : es[i].id = id /\ \A j \in DOMAIN es : es[j].id = id => j <= i]

\* serializeGame(gameId): the game's portable fields with the factories and
\* solvers its child list names, in list order
SerializeOf(gs, fs, ss, g) ==
  LET ids == gs[g].factoriesIds
      present == SelectSeq(ids, LAMBDA id : fs[id] # Nil)
      solved == SelectSeq(ids, LAMBDA id : ss[id] # Nil)
  IN [game |-> [name |-> gs[g].name, factoriesIds |-> ids],
      factories |-> [i \in DOMAIN present |-> fs[present[i]]],
      solvers |-> [i \in DOMAIN solved |-> ss[solved[i]]]]

serializeGame(g) == SerializeOf(games, factories, solvers, g)

\* the game object in a collaborator's payload: the collaborator's name for
\* the game and its copy of the fields that belong to a local record
OtherGame(f) ==
  [name |-> "n2", factoriesIds |-> <<f>>, savedId |-> "r0", authorId |-> "u0",
   shareToken |-> "k2", createdAt |-> "t2", version |-> 0]

\* the snapshots another collaborator pushes for a row: a factory of the
\* game, with or without its solver
OtherData ==
  UNION {{[game |-> OtherGame(f),
           factories |-> <<[id |-> f, body |-> "b"]>>,
           solvers |-> <<>>],
          [game |-> OtherGame(f),
           factories |-> <<[id |-> f, body |-> "b"]>>,
           solvers |-> <<[id |-> f, body |-> "s"]>>]} : f \in AllFactoryIds}

DebounceIdle == [pending |-> FALSE, args |-> None, sinceCall |-> 0]

BurstNone == [calls |-> 0, snap |-> Nil, overtaken |-> FALSE]

LastOther == [op |-> "other", did |-> "none", pending |-> FALSE, calls |-> 0]

\* a game that is not in the store
Absent == "absent"

\* the games the engine starts with: g1 alone, persisted as row r1
OneGame == {[g \in GameIds |-> IF g = "g1" THEN "r1" ELSE Absent]}

\* the state after loadRemoteGamesList: one of the given layouts says for
\* each game whether it is in the store and under which remote identifier;
\* a game in the store is at version 1, without factories, and its author
\* is one of authors; the rows of the persisted games are at version 1
EngineInit(authors, layouts) ==
  /\ \E author \in authors, layout \in layouts :
       /\ games = [g \in GameIds |->
                    IF layout[g] = Absent THEN Nil
                    ELSE [savedId |-> layout[g], version |-> 1, authorId |-> author,
                          shareToken |-> "k1", createdAt |-> "t1",
                          name |-> "n1", factoriesIds |-> <<>>]]
       /\ rows = [r \in SavedIds |->
                   IF \E g \in GameIds : layout[g] = r THEN [version |-> 1] ELSE Nil]
  /\ factories = [f \in StoredFactoryIds |-> Nil]
  /\ solvers = [f \in StoredFactoryIds |-> Nil]
  /\ selected = "g1"
  /\ session = Me
  /\ isSaving = FALSE
  /\ syncError = [g \in GameIds |-> None]
  /\ debounce = DebounceIdle
  /\ inflight = <<>>
  /\ channel = Nil
  /\ channels = {}
  /\ rowMax = [r \in SavedIds |-> 1]
  /\ notifs = {}
  /\ burst = BurstNone
  /\ last = LastOther

\* the engine runs on a game of this user
SyncInit == EngineInit({Me}, OneGame)

-----------------------------------------------------------------------------
(* The synchronisation engine: outbound path (mergeGameState.ts 92-234) *)

Persisted(gs, g) == gs[g] # Nil /\ gs[g].savedId # None

\* lodash debounce, trailing edge: a call (re)starts the quiet period and
\* replaces the pending arguments
DebounceCall(d, g) == [pending |-> TRUE, args |-> g, sinceCall |-> 0]

\* the pending invocation is due once the quiet period has passed since the
\* last call
DebounceDue_early(d) == d.pending

DebounceDue(d) == d.pending /\ d.sinceCall >= SYNC_DEBOUNCE_MS

\* syncGameToRemote.cancel()
cancelPendingSync_skip(d) == d

cancelPendingSync(d) == DebounceIdle

\* the history of a triggerSync call that reaches the debounce
BurstCall(gs, fs, ss, g) ==
  [calls |-> IF debounce.pending THEN Min(burst.calls + 1, MaxBurst) ELSE 1,
   snap |-> SerializeOf(gs, fs, ss, g),
   overtaken |-> FALSE]

\* the history once the timer may have been cancelled: it ends with the timer
BurstAfter(d, b) == IF d.pending THEN b ELSE BurstNone

triggerSync_anyGame(gs, fs, ss, t) ==
  LET target == IF t = None THEN selected ELSE t IN
  IF target # None /\ gs[target] # Nil
  THEN /\ debounce' = DebounceCall(debounce, target)
       /\ burst' = BurstCall(gs, fs, ss, target)
  ELSE UNCHANGED <<debounce, burst>>

\* triggerSync(gameId) on the state (gs, fs, ss) the caller has just written:
\* the target is the given game or the selected one, and only a persisted
\* game reaches the debounce
triggerSync(gs, fs, ss, t) ==
  LET target == IF t = None THEN selected ELSE t IN
  IF target # None /\ Persisted(gs, target)
  THEN /\ debounce' = DebounceCall(debounce, target)
       /\ burst' = BurstCall(gs, fs, ss, target)
  ELSE UNCHANGED <<debounce, burst>>

\* a caller invokes triggerSync without a change of the game
TriggerSync(t) ==
  /\ triggerSync(games, factories, solvers, t)
  /\ last' = LastOther
  /\ UNCHANGED <<games, factories, solvers, selected, session, isSaving, syncError,
                 inflight, channel, channels, rows, rowMax, notifs>>

\* a local mutation followed by triggerSync: a new factory in game g
CreateFactory(g, f) ==
  /\ games[g] # Nil
  /\ factories[f] = Nil
  /\ games' = [games EXCEPT ![g].factoriesIds = Append(@, f)]
  /\ factories' = [factories EXCEPT ![f] = [id |-> f, body |-> "a"]]
  /\ triggerSync(games', factories', solvers, g)
  /\ last' = LastOther
  /\ UNCHANGED <<solvers, selected, session, isSaving, syncError, inflight, channel, channels, rows,
                 rowMax, notifs>>

\* a local mutation followed by triggerSync: a factory of game g is edited
EditFactory(g, f) ==
  /\ games[g] # Nil
  /\ f \in Range(games[g].factoriesIds)
  /\ factories[f] # Nil
  /\ factories[f].body # "a"
  /\ factories' = [factories EXCEPT ![f].body = "a"]
  /\ triggerSync(games, factories', solvers, g)
  /\ last' = LastOther
  /\ UNCHANGED <<games, solvers, selected, session, isSaving, syncError, inflight, channel, channels,
                 rows, rowMax, notifs>>

\* the update request of a push: the serialized game under version + 1
PushRequest_sameVersion(g) ==
  [gameId |-> g, savedId |-> games[g].savedId,
   version |-> games[g].version, data |-> serializeGame(g),
   stage |-> "sent", echo |-> 0]

PushRequest(g) ==
  [gameId |-> g, savedId |-> games[g].savedId,
   version |-> games[g].version + 1, data |-> serializeGame(g),
   stage |-> "sent", echo |-> 0]

PushReady_noSession(g) == Persisted(games, g)

\* the early returns of a push: it goes on only for a game with a remote
\* identifier and with a session
PushReady(g) == Persisted(games, g) /\ session # None

\* the bounds of the model leave room for one more push of game g
CanPush(g) ==
  /\ Len(inflight) < MaxInflight
  /\ games[g].version < MaxVersion

\* the body of syncGameToRemote up to its await, run when the debounce fires
syncGameToRemote ==
  /\ DebounceDue(debounce)
  /\ LET g == debounce.args
         ready == PushReady(g)
     IN /\ ready => CanPush(g)
        /\ IF ready
           THEN /\ isSaving' = TRUE
                /\ inflight' = Append(inflight, PushRequest(g))
           ELSE UNCHANGED <<isSaving, inflight>>
        /\ last' = [op |-> "fire", did |-> IF ready THEN "sent" ELSE "skipped",
                    pending |-> TRUE, calls |-> burst.calls]
  /\ debounce' = DebounceIdle
  /\ burst' = BurstNone
  /\ UNCHANGED <<games, factories, solvers, selected, session, channel, channels, rows,
                 rowMax, notifs>>
  /\ UNCHANGED syncError

\* syncGameImmediately(gameId) up to its await
syncGameImmediately(g) ==
  /\ LET ready == PushReady(g)
     IN /\ ready => CanPush(g)
        /\ IF ready
           THEN /\ isSaving' = TRUE
                /\ inflight' = Append(inflight, PushRequest(g))
           ELSE UNCHANGED <<isSaving, inflight>>
        /\ last' = [op |-> "flush", did |-> IF ready THEN "sent" ELSE "skipped",
                    pending |-> debounce.pending, calls |-> 0]
  /\ debounce' = cancelPendingSync(debounce)
  /\ burst' = BurstAfter(debounce', burst)
  /\ UNCHANGED <<games, factories, solvers, selected, session, channel, channels, rows,
                 rowMax, notifs>>
  /\ UNCHANGED syncError

\* setSyncError(gameId, error): the error is logged; the store is not written
setSyncError(errs, g, error) == errs

\* setGameVersion(gameId, version)
setGameVersion(gs, g, version) ==
  IF gs[g] # Nil THEN [gs EXCEPT ![g].version = version] ELSE gs

\* the continuation of a push after its await, when the update succeeded:
\* the version the row returned is stored, the syncing flag is lowered
Response(i) ==
  /\ i \in DOMAIN inflight
  /\ inflight[i].stage = "answered"
  /\ games' = setGameVersion(games, inflight[i].gameId, inflight[i].echo)
  /\ isSaving' = FALSE
  /\ syncError' = setSyncError(syncError, inflight[i].gameId, None)
  /\ inflight' = RemoveAt(inflight, i)
  /\ last' = [op |-> "response", did |-> "ok", pending |-> FALSE, calls |-> 0]
  /\ UNCHANGED <<factories, solvers, selected, session, debounce, channel, channels, rows,
                 rowMax, notifs, burst>>

FailedResponse_setsVersion(i) ==
  /\ i \in DOMAIN inflight
  /\ games' = setGameVersion(games, inflight[i].gameId, inflight[i].version)
  /\ isSaving' = FALSE
  /\ syncError' = setSyncError(syncError, inflight[i].gameId, "failed")
  /\ inflight' = RemoveAt(inflight, i)
  /\ last' = [op |-> "response", did |-> "failed", pending |-> FALSE, calls |-> 0]
  /\ UNCHANGED <<factories, solvers, selected, session, debounce, channel, channels,
                 rows, rowMax, notifs, burst>>

FailedResponse_noFinally(i) ==
  /\ i \in DOMAIN inflight
  /\ syncError' = setSyncError(syncError, inflight[i].gameId, "failed")
  /\ inflight' = RemoveAt(inflight, i)
  /\ last' = [op |-> "response", did |-> "failed", pending |-> FALSE, calls |-> 0]
  /\ UNCHANGED <<games, factories, solvers, selected, session, isSaving, debounce, channel,
                 channels, rows, rowMax, notifs, burst>>

\* the continuation when the update failed (an error result, or a thrown
\* exception before or after the row was written): the error is logged, the
\* syncing flag is lowered
FailedResponse(i) ==
  /\ i \in DOMAIN inflight
  /\ isSaving' = FALSE
  /\ syncError' = setSyncError(syncError, inflight[i].gameId, "failed")
  /\ inflight' = RemoveAt(inflight, i)
  /\ last' = [op |-> "response", did |-> "failed", pending |-> FALSE, calls |-> 0]
  /\ UNCHANGED <<games, factories, solvers, selected, session, debounce, channel, channels,
                 rows, rowMax, notifs, burst>>

-----------------------------------------------------------------------------
(* The Remote Authority: the games row, its notifications, other writers *)

\* the UPDATE notification of a row; own records (for the history only)
\* whether this client's push wrote the row
UpdateNotif(r, version, data, own) ==
  [type |-> "UPDATE", savedId |-> r, version |-> version, data |-> data, own |-> own]

DeleteNotif(r) == [type |-> "DELETE", savedId |-> r]

\* a notification is published; at most MaxNotifs of a kind are in transit
Emit(n) ==
  /\ Cardinality({m \in notifs \cup {n} : m.type = n.type}) <= MaxNotifs
  /\ notifs' = notifs \cup {n}

\* the server executes the update of request i: the row takes the payload
\* and the version sent (no version check), the change is published and the
\* row's version is returned
ServerProcess(i) ==
  /\ i \in DOMAIN inflight
  /\ inflight[i].stage = "sent"
  /\ LET req == inflight[i] IN
     /\ rows[req.savedId] # Nil
     /\ rows' = [rows EXCEPT ![req.savedId] = [version |-> req.version]]
     /\ rowMax' = [rowMax EXCEPT ![req.savedId] = Max(@, req.version)]
     /\ Emit(UpdateNotif(req.savedId, req.version, req.data, TRUE))
     /\ inflight' = [inflight EXCEPT ![i].stage = "answered", ![i].echo = req.version]
  /\ last' = LastOther
  /\ UNCHANGED <<games, factories, solvers, selected, session, isSaving, syncError,
                 debounce, channel, channels, burst>>

\* another collaborator pushes: its local version is one the row has
\* carried, and it sends that version + 1
OtherWrite(r, v, d) ==
  /\ rows[r] # Nil
  /\ v <= Min(rowMax[r] + 1, MaxVersion)
  /\ rows' = [rows EXCEPT ![r] = [version |-> v]]
  /\ rowMax' = [rowMax EXCEPT ![r] = Max(@, v)]
  /\ Emit(UpdateNotif(r, v, d, FALSE))
  /\ last' = LastOther
  /\ UNCHANGED <<games, factories, solvers, selected, session, isSaving, syncError,
                 debounce, inflight, channel, channels, burst>>

\* the row is deleted (by its owner)
RowDelete(r) ==
  /\ rows[r] # Nil
  /\ rows' = [rows EXCEPT ![r] = Nil]
  /\ Emit(DeleteNotif(r))
  /\ last' = LastOther
  /\ UNCHANGED <<games, factories, solvers, selected, session, isSaving, syncError,
                 debounce, inflight, channel, channels, rowMax, burst>>

-----------------------------------------------------------------------------
(* The synchronisation engine: inbound path (useGameSubscription) *)

\* the channel useGameSubscription(selected) asks for: one for the remote
\* identifier of the selected game, none without a remote identifier
WantedChannel ==
  IF selected # None /\ Persisted(games, selected)
  THEN [gameId |-> selected, savedId |-> games[selected].savedId]
  ELSE Nil

Cleanup_skip(chs, ch) == chs

\* the cleanup of an effect run: channel.unsubscribe() on the channel that
\* run opened
Cleanup(chs, ch) == chs \ {ch}

\* the effect of useGameSubscription runs because savedId or gameId changed:
\* the cleanup of the previous run unsubscribes its channel, then the new
\* channel is opened, unless the game has no remote identifier
SubscriptionEffect ==
  /\ channel # WantedChannel
  /\ channel' = WantedChannel
  /\ channels' = Cleanup(channels, channel) \cup ({WantedChannel} \ {Nil})
  /\ last' = LastOther
  /\ UNCHANGED <<games, factories, solvers, selected, session, isSaving, syncError,
                 debounce, inflight, rows, rowMax, notifs, burst>>

\* applyRemoteGameUpdate(gameId, merged, version): the three stores after it
\* the object spread {...a, ...b}: the fields of both, b's value where both
\* have the field
Spread(a, b) ==
  [k \in DOMAIN a \cup DOMAIN b |-> IF k \in DOMAIN b THEN b[k] ELSE a[k]]

applyGames_spreadOnly(g, merged, version) ==
  IF games[g] = Nil THEN games
  ELSE [games EXCEPT ![g] = Spread(Spread(games[g], merged.game), [version |-> version])]

applyGames(g, merged, version) ==
  IF games[g] = Nil THEN games
  ELSE LET localGame == games[g] IN
       [games EXCEPT ![g] =
          Spread(Spread(localGame, merged.game),
                 [savedId |-> localGame.savedId,
                  authorId |-> localGame.authorId,
                  shareToken |-> localGame.shareToken,
                  createdAt |-> localGame.createdAt,
                  version |-> version])]

applyFactories(g, merged) ==
  IF games[g] = Nil THEN factories
  ELSE [f \in StoredFactoryIds |->
          IF f \in IdSet(merged.factories) THEN LastEntityOf(merged.factories, f)
          ELSE IF f \in Range(games[g].factoriesIds) THEN Nil
          ELSE factories[f]]

applySolvers(g, merged) ==
  IF games[g] = Nil THEN solvers
  ELSE [f \in StoredFactoryIds |->
          IF f \in IdSet(merged.solvers) THEN LastEntityOf(merged.solvers, f)
          ELSE IF f \in Range(games[g].factoriesIds) /\ f \notin IdSet(merged.factories) THEN Nil
          ELSE solvers[f]]

\* the version test of handleRemoteUpdate: the update is stale
IsStale_strict(remoteVersion, localVersion) == remoteVersion < localVersion

IsStale(remoteVersion, localVersion) == remoteVersion <= localVersion

handleRemoteUpdate_cancelFirst(g, remote) ==
  IF games[g] = Nil
  THEN /\ UNCHANGED <<games, factories, solvers>>
       /\ debounce' = cancelPendingSync(debounce)
       /\ burst' = BurstNone
       /\ last' = [op |-> "update", did |-> "unknown", pending |-> debounce.pending, calls |-> 0]
  ELSE IF IsStale(remote.version, games[g].version)
  THEN /\ UNCHANGED <<games, factories, solvers, debounce, burst>>
       /\ last' = [op |-> "update", did |-> "discarded", pending |-> debounce.pending, calls |-> 0]
  ELSE LET merged == mergeGameState(serializeGame(g), remote.data) IN
       /\ debounce' = cancelPendingSync(debounce)
       /\ games' = applyGames(g, merged, remote.version)
       /\ factories' = applyFactories(g, merged)
       /\ solvers' = applySolvers(g, merged)
       /\ burst' = BurstAfter(debounce', [burst EXCEPT !.overtaken = TRUE])
       /\ last' = [op |-> "update", did |-> "merged", pending |-> debounce.pending, calls |-> 0]

handleRemoteUpdate_resync(g, remote) ==
  IF games[g] = Nil
  THEN /\ UNCHANGED <<games, factories, solvers, debounce, burst>>
       /\ last' = [op |-> "update", did |-> "unknown", pending |-> debounce.pending, calls |-> 0]
  ELSE IF IsStale(remote.version, games[g].version)
  THEN /\ UNCHANGED <<games, factories, solvers, debounce, burst>>
       /\ last' = [op |-> "update", did |-> "discarded", pending |-> debounce.pending, calls |-> 0]
  ELSE LET merged == mergeGameState(serializeGame(g), remote.data) IN
       /\ games' = applyGames(g, merged, remote.version)
       /\ factories' = applyFactories(g, merged)
       /\ solvers' = applySolvers(g, merged)
       /\ triggerSync(games', factories', solvers', g)
       /\ last' = [op |-> "update", did |-> "merged", pending |-> debounce.pending, calls |-> 0]

\* handleRemoteUpdate(gameId, remote), run by the channel's UPDATE listener
handleRemoteUpdate(g, remote) ==
  IF games[g] = Nil
  THEN /\ UNCHANGED <<games, factories, solvers, debounce, burst>>
       /\ last' = [op |-> "update", did |-> "unknown", pending |-> debounce.pending, calls |-> 0]
  ELSE IF IsStale(remote.version, games[g].version)
  THEN /\ UNCHANGED <<games, factories, solvers, debounce, burst>>
       /\ last' = [op |-> "update", did |-> "discarded", pending |-> debounce.pending, calls |-> 0]
  ELSE LET merged == mergeGameState(serializeGame(g), remote.data) IN
       /\ debounce' = cancelPendingSync(debounce)
       /\ games' = applyGames(g, merged, remote.version)
       /\ factories' = applyFactories(g, merged)
       /\ solvers' = applySolvers(g, merged)
       /\ burst' = BurstAfter(debounce', [burst EXCEPT !.overtaken = TRUE])
       /\ last' = [op |-> "update", did |-> "merged", pending |-> debounce.pending, calls |-> 0]

\* an UPDATE notification reaches the channel; the transport may deliver it
\* again later (keep)
HandleRemoteUpdate(n, keep) ==
  /\ n \in notifs
  /\ n.type = "UPDATE"
  /\ \E c \in channels : c.savedId = n.savedId /\ handleRemoteUpdate(c.gameId, n)
  /\ notifs' = IF keep THEN notifs ELSE notifs \ {n}
  /\ UNCHANGED <<selected, session, isSaving, syncError, inflight, channel, channels, rows, rowMax>>

\* removeGame(gameId): the game and its children leave the stores
removeGame(g) ==
  /\ games' = [games EXCEPT ![g] = Nil]
  /\ factories' = [f \in StoredFactoryIds |-> IF f \in Range(games[g].factoriesIds) THEN Nil ELSE factories[f]]
  /\ solvers' = [f \in StoredFactoryIds |-> IF f \in Range(games[g].factoriesIds) THEN Nil ELSE solvers[f]]

\* the test of handleRemoteDelete: a user is signed in and is not the author
NotOwner_owner(game) == session # None

NotOwner(game) == session # None /\ game.authorId # session

\* handleRemoteDelete(gameId), run by the channel's DELETE listener
handleRemoteDelete(g) ==
  /\ IF games[g] # Nil /\ NotOwner(games[g])
     THEN removeGame(g)
     ELSE UNCHANGED <<games, factories, solvers>>
  /\ last' = [op |-> "delete",
              did |-> IF games[g] = Nil THEN "unknown"
                      ELSE IF NotOwner(games[g]) THEN "removed" ELSE "kept",
              pending |-> debounce.pending, calls |-> 0]

HandleRemoteDelete(n) ==
  /\ n \in notifs
  /\ n.type = "DELETE"
  /\ \E c \in channels : c.savedId = n.savedId /\ handleRemoteDelete(c.gameId)
  /\ notifs' = notifs \ {n}
  /\ UNCHANGED <<selected, session, isSaving, syncError, debounce, inflight, channel, channels, rows,
                 rowMax, burst>>

\* a notification for a row no channel listens to is lost
DropNotif(n) ==
  /\ n \in notifs
  /\ \A c \in channels : c.savedId # n.savedId
  /\ notifs' = notifs \ {n}
  /\ last' = LastOther
  /\ UNCHANGED <<games, factories, solvers, selected, session, isSaving, syncError,
                 debounce, inflight, channel, channels, rows, rowMax, burst>>

\* the collaborator focuses another game, or none: state.games.selected
SelectGame(t) ==
  /\ t # selected
  /\ t # None => games[t] # Nil
  /\ selected' = t
  /\ last' = LastOther
  /\ UNCHANGED <<games, factories, solvers, session, isSaving, syncError, debounce,
                 inflight, channel, channels, rows, rowMax, notifs, burst>>

\* setSession(session) from the auth handlers: sign-out and sign-in
SignOut ==
  /\ session # None
  /\ session' = None
  /\ last' = LastOther
  /\ UNCHANGED <<games, factories, solvers, selected, isSaving, syncError, debounce,
                 inflight, channel, channels, rows, rowMax, notifs, burst>>

SignIn ==
  /\ session = None
  /\ session' = Me
  /\ last' = LastOther
  /\ UNCHANGED <<games, factories, solvers, selected, isSaving, syncError, debounce,
                 inflight, channel, channels, rows, rowMax, notifs, burst>>

\* TickMs milliseconds pass while the debounce waits; a due invocation runs
\* before more time passes
Tick ==
  /\ debounce.pending
  /\ ~DebounceDue(debounce)
  /\ debounce' = [debounce EXCEPT !.sinceCall = @ + TickMs]
  /\ last' = LastOther
  /\ UNCHANGED <<games, factories, solvers, selected, session, isSaving, syncError,
                 inflight, channel, channels, rows, rowMax, notifs, burst>>

SyncNext ==
  \/ \E t \in GameIds \cup {None} : TriggerSync(t)
  \/ \E g \in GameIds, f \in AllFactoryIds : CreateFactory(g, f)
  \/ \E g \in GameIds, f \in AllFactoryIds : EditFactory(g, f)
  \/ syncGameToRemote
  \/ \E g \in GameIds : syncGameImmediately(g)
  \/ \E i \in 1..MaxInflight : ServerProcess(i)
  \/ \E i \in 1..MaxInflight : Response(i)
  \/ \E i \in 1..MaxInflight : FailedResponse(i)
  \/ \E r \in SavedIds, v \in 2..MaxVersion, d \in OtherData : OtherWrite(r, v, d)
  \/ SubscriptionEffect
  \/ \E n \in notifs, keep \in BOOLEAN : HandleRemoteUpdate(n, keep)
  \/ \E n \in notifs : DropNotif(n)
  \/ SignOut
  \/ SignIn
  \/ Tick

\* the engine at rest, for the specifications that do not run it
SyncParked ==
  /\ games = [g \in GameIds |-> Nil]
  /\ factories = [f \in StoredFactoryIds |-> Nil]
  /\ solvers = [f \in StoredFactoryIds |-> Nil]
  /\ selected = None
  /\ session = None
  /\ isSaving = FALSE
  /\ syncError = [g \in GameIds |-> None]
  /\ debounce = DebounceIdle
  /\ inflight = <<>>
  /\ channel = Nil
  /\ channels = {}
  /\ rows = [r \in SavedIds |-> Nil]
  /\ rowMax = [r \in SavedIds |-> 1]
  /\ notifs = {}
  /\ burst = BurstNone
  /\ last = LastOther

\* the refresh scheduler at rest
AuthParked ==
  /\ now = 0
  /\ tokenSession = Nil
  /\ timers = {}
  /\ refreshTimeoutRef = 0
  /\ nextTimer = 1
  /\ loading = FALSE
  /\ refreshing = 0
  /\ mounted = FALSE
  /\ signedOut = FALSE
  /\ authLast = [op |-> "none"]

MergeParked ==
  /\ mLocal = Nil
  /\ mRemote = Nil
  /\ mOut = [op |-> None]

Init == SyncInit /\ MergeParked /\ AuthParked

Next == SyncNext /\ UNCHANGED mergeVars /\ UNCHANGED authVars

Spec == Init /\ [][Next]_vars

-----------------------------------------------------------------------------
(* DeleteSpec: the inbound path on a game of this user or of another       *)
(* author, while the row is updated by collaborators and deleted           *)

DeleteInit == EngineInit({Me, Other}, OneGame) /\ MergeParked /\ AuthParked

DeleteNext ==
  /\ \/ \E r \in SavedIds, v \in 2..MaxVersion, d \in OtherData : OtherWrite(r, v, d)
     \/ \E r \in SavedIds : RowDelete(r)
     \/ SubscriptionEffect
     \/ \E n \in notifs, keep \in BOOLEAN : HandleRemoteUpdate(n, keep)
     \/ \E n \in notifs : HandleRemoteDelete(n)
     \/ \E n \in notifs : DropNotif(n)
     \/ SignOut
     \/ SignIn
  /\ UNCHANGED mergeVars
  /\ UNCHANGED authVars

DeleteSpec == DeleteInit /\ [][DeleteNext]_vars

-----------------------------------------------------------------------------
(* MultiSpec: two games in the store, g1 persisted and g2 persisted or     *)
(* local only, while the collaborator moves the focus between them          *)

TwoGames == {[g \in GameIds |-> IF g = "g1" THEN "r1" ELSE r] : r \in {"r2", None}}

MultiInit == EngineInit({Other}, TwoGames) /\ MergeParked /\ AuthParked

MultiNext ==
  /\ \/ \E t \in GameIds \cup {None} : SelectGame(t)
     \/ \E t \in GameIds \cup {None} : TriggerSync(t)
     \/ syncGameToRemote
     \/ \E g \in GameIds : syncGameImmediately(g)
     \/ \E r \in SavedIds, d \in OtherData : d.solvers = <<>> /\ OtherWrite(r, 2, d)
     \/ \E r \in SavedIds : RowDelete(r)
     \/ SubscriptionEffect
     \/ \E n \in notifs, keep \in BOOLEAN : HandleRemoteUpdate(n, keep)
     \/ \E n \in notifs : HandleRemoteDelete(n)
     \/ \E n \in notifs : DropNotif(n)
     \/ Tick
  /\ UNCHANGED mergeVars
  /\ UNCHANGED authVars

MultiSpec == MultiInit /\ [][MultiNext]_vars

-----------------------------------------------------------------------------
(* LiveSpec: the engine on one game while a collaborator writes snapshots  *)
(* with or without the factory this client creates; timers run, requests   *)
(* are answered and notifications are handled (weak fairness), local edits *)
(* are not forced                                                          *)

\* a collaborator's snapshot of the game without any factory
EmptyData ==
  [game |-> [OtherGame(1) EXCEPT !.factoriesIds = <<>>],
   factories |-> <<>>,
   solvers |-> <<>>]

LiveData == {d \in OtherData : d.solvers = <<>>} \cup {EmptyData}

LiveInit == EngineInit({Me}, OneGame) /\ MergeParked /\ AuthParked

\* the variables of the other specifications stay as they are
OthersAtRest == UNCHANGED mergeVars /\ UNCHANGED authVars

LiveNext ==
  /\ \/ \E f \in AllFactoryIds : CreateFactory("g1", f)
     \/ \E f \in AllFactoryIds : EditFactory("g1", f)
     \/ syncGameToRemote
     \/ \E i \in 1..MaxInflight : ServerProcess(i)
     \/ \E i \in 1..MaxInflight : Response(i)
     \/ \E v \in 2..MaxVersion, d \in LiveData : OtherWrite("r1", v, d)
     \/ SubscriptionEffect
     \/ \E n \in notifs : HandleRemoteUpdate(n, FALSE)
     \/ Tick
  /\ UNCHANGED mergeVars
  /\ UNCHANGED authVars

LiveSpec ==
  /\ LiveInit
  /\ [][LiveNext]_vars
  /\ WF_vars(Tick /\ OthersAtRest)
  /\ WF_vars(syncGameToRemote /\ OthersAtRest)
  /\ WF_vars((\E i \in 1..MaxInflight : ServerProcess(i)) /\ OthersAtRest)
  /\ WF_vars((\E i \in 1..MaxInflight : Response(i)) /\ OthersAtRest)
  /\ WF_vars(SubscriptionEffect /\ OthersAtRest)
  /\ WF_vars((\E n \in notifs : HandleRemoteUpdate(n, FALSE)) /\ OthersAtRest)

-----------------------------------------------------------------------------
(* ConvergeSpec: this client and a collaborator watch the row at version 1; *)
(* each creates a new factory of its own and pushes                        *)

\* the collaborator's snapshot after it created its factory: the game with
\* that factory alone
PeerData ==
  {[game |-> OtherGame(f),
    factories |-> <<[id |-> f, body |-> "b"]>>,
    solvers |-> <<>>] : f \in PeerFactoryIds}

ConvergeInit == EngineInit({Me}, OneGame) /\ MergeParked /\ AuthParked

\* the collaborator's push: its local version is 1, this client is watching
PeerPush ==
  /\ channels # {}
  /\ \E d \in PeerData : OtherWrite("r1", 2, d)

ConvergeNext ==
  /\ \/ SubscriptionEffect
     \/ \E f \in AllFactoryIds : CreateFactory("g1", f)
     \/ Tick
     \/ syncGameToRemote
     \/ syncGameImmediately("g1")
     \/ \E i \in 1..MaxInflight : ServerProcess(i)
     \/ \E i \in 1..MaxInflight : Response(i)
     \/ PeerPush
     \/ \E n \in notifs : HandleRemoteUpdate(n, FALSE)
  /\ UNCHANGED mergeVars
  /\ UNCHANGED authVars

ConvergeSpec == ConvergeInit /\ [][ConvergeNext]_vars

-----------------------------------------------------------------------------
(* Properties of the synchronisation engine *)

\* the request the step has appended
NewRequest == inflight'[Len(inflight')]

\* C1 - Debounce coalescing: the triggerSync calls for a persisted game made
\* while the timer is pending are answered by one run of syncGameToRemote;
\* with an active session that run sends exactly one request, only once the
\* quiet period has passed since the last call, with the game's state as of
\* the last call as payload, and it leaves no timer behind; and a request is
\* only ever started by that run or by an immediate push.
DebounceCoalesces ==
  [][ /\ (syncGameToRemote /\ Persisted(games, debounce.args) /\ session # None) =>
           /\ burst.calls >= 1
           /\ debounce.sinceCall >= SYNC_DEBOUNCE_MS
           /\ Len(inflight') = Len(inflight) + 1
           /\ NewRequest.gameId = debounce.args
           /\ NewRequest.data = burst.snap
           /\ ~debounce'.pending
      /\ (Len(inflight') > Len(inflight)) =>
           /\ Len(inflight') = Len(inflight) + 1
           /\ syncGameToRemote \/ \E g \in GameIds : syncGameImmediately(g)
    ]_vars

\* two calls in one burst, then the push of the game with its new factory
DebounceCoalescesWitness ==
  /\ last.op = "fire"
  /\ last.did = "sent"
  /\ last.calls >= 2
  /\ Len(inflight) >= 1
  /\ inflight[Len(inflight)].data.factories # <<>>

\* the stores of game g hold exactly the snapshot merged after the step
AppliedEquals(g, merged) ==
  /\ games'[g].name = merged.game.name
  /\ games'[g].factoriesIds = merged.game.factoriesIds
  /\ \A f \in AllFactoryIds :
       /\ f \in IdSet(merged.factories) => factories'[f] = EntityOf(merged.factories, f)
       /\ f \in Range(games'[g].factoriesIds) \ IdSet(merged.factories) => factories'[f] = Nil
       /\ f \in IdSet(merged.solvers) => solvers'[f] = EntityOf(merged.solvers, f)
       /\ f \in Range(games'[g].factoriesIds) \ IdSet(merged.solvers) => solvers'[f] = Nil

\* C2 - Cancellation ordering: when a newer inbound update is handled while
\* a debounced push is pending, the timer is cancelled, the game's local
\* state is the merge result at the remote version, and the run of the
\* debounced push never happens for a burst a merge has overtaken.
CancellationOrdering ==
  [][ /\ \A n \in notifs : \A keep \in BOOLEAN :
           (/\ HandleRemoteUpdate(n, keep)
            /\ debounce.pending
            /\ games[channel.gameId] # Nil
            /\ n.version > games[channel.gameId].version) =>
             LET g == channel.gameId
                 merged == mergeGameState(serializeGame(g), n.data)
             IN /\ ~debounce'.pending
                /\ games'[g].version = n.version
                /\ AppliedEquals(g, merged)
      /\ syncGameToRemote => ~burst.overtaken
    ]_vars

\* C3 - Idempotent stale-discard: handling an update whose version is at
\* most the local version changes neither the game nor its factories nor its
\* solvers; handling a newer one applies one merge: the local version
\* becomes the remote version (so the same notification is stale from then
\* on) and the remote factories are stored.
StaleDiscard ==
  [][ \A n \in notifs : \A keep \in BOOLEAN :
        (HandleRemoteUpdate(n, keep) /\ games[channel.gameId] # Nil) =>
          LET g == channel.gameId IN
          IF n.version <= games[g].version
          THEN UNCHANGED <<games, factories, solvers>>
          ELSE /\ games'[g].version = n.version
               /\ last'.did = "merged"
               /\ \A f \in IdSet(n.data.factories) :
                    factories'[f] = EntityOf(n.data.factories, f)
    ]_vars

\* the notification just handled is delivered a second time, at the version
\* the game already has, and is discarded
StaleDiscardWitness ==
  /\ last.op = "update"
  /\ last.did = "discarded"
  /\ games["g1"] # Nil
  /\ \E n \in notifs : n.type = "UPDATE" /\ n.version = games["g1"].version
  /\ games["g1"].version >= 2

\* C4 - Version monotonicity: no step lowers the local version of a game.
VersionNeverDecreases ==
  [][ \A g \in GameIds :
        (games[g] # Nil /\ games'[g] # Nil) => games'[g].version >= games[g].version
    ]_vars

\* C5 - One push in flight: at most one request per game awaits its
\* response.
OnePushInFlight ==
  \A g \in GameIds : Cardinality({i \in DOMAIN inflight : inflight[i].gameId = g}) <= 1

\* C8 - Ownership-gated delete: when a DELETE notification is handled for a
\* game that is present and a user is signed in, the game of that user
\* stays as it is with its factories and solvers, and the game of another
\* author is removed with its factories and solvers.
OwnershipGatedDelete ==
  [][ \A n \in notifs :
        (HandleRemoteDelete(n) /\ games[channel.gameId] # Nil /\ session # None) =>
          LET g == channel.gameId IN
          IF games[g].authorId = session
          THEN UNCHANGED <<games, factories, solvers>>
          ELSE /\ games'[g] = Nil
               /\ \A f \in Range(games[g].factoriesIds) :
                    factories'[f] = Nil /\ solvers'[f] = Nil
    ]_vars

\* the shared game of another author, with a factory, has just been removed
OwnershipGatedDeleteWitness ==
  /\ last.op = "delete"
  /\ last.did = "removed"
  /\ session = Me
  /\ games["g1"] = Nil
  /\ factories[1] = Nil

\* C19 - Inbound apply, version and local-only fields: a merge applied for
\* an inbound update sets the game's version to the remote version, takes
\* the name and the child list from the merged game, and leaves savedId,
\* authorId, shareToken and createdAt at their local values, whatever the
\* payload carries for them.
ApplyKeepsLocalFields ==
  [][ \A n \in notifs : \A keep \in BOOLEAN :
        (/\ HandleRemoteUpdate(n, keep)
         /\ games[channel.gameId] # Nil
         /\ n.version > games[channel.gameId].version) =>
          LET g == channel.gameId
              merged == mergeGameState(serializeGame(g), n.data)
          IN /\ games'[g].version = n.version
             /\ games'[g].name = merged.game.name
             /\ games'[g].factoriesIds = merged.game.factoriesIds
             /\ games'[g].savedId = games[g].savedId
             /\ games'[g].authorId = games[g].authorId
             /\ games'[g].shareToken = games[g].shareToken
             /\ games'[g].createdAt = games[g].createdAt
             /\ DOMAIN games'[g] = DOMAIN games[g] \cup DOMAIN merged.game
    ]_vars

\* a collaborator's payload, which names other values for the local-only
\* fields, was merged at version 3
ApplyKeepsLocalFieldsWitness ==
  /\ last.op = "update"
  /\ last.did = "merged"
  /\ games["g1"] # Nil
  /\ games["g1"].version = 3
  /\ games["g1"].name = "n2"
  /\ games["g1"].savedId = "r1"
  /\ games["g1"].shareToken = "k1"

\* the step is an operation of the engine on game g: a triggerSync call, an
\* immediate push, or the handling of an inbound update of g
OperationOn(g) ==
  \/ TriggerSync(g)
  \/ syncGameImmediately(g)
  \/ \E n \in notifs, keep \in BOOLEAN :
       /\ HandleRemoteUpdate(n, keep)
       /\ \E c \in channels : c.gameId = g /\ c.savedId = n.savedId

\* C17 - Per-game timers: an operation on one game leaves the timer that is
\* pending for another game pending, for the same game and with the same
\* time still to run, so that game's delayed push still fires.
PerGameTimer ==
  [][ \A g \in GameIds : \A h \in GameIds \ {g} :
        (debounce.pending /\ debounce.args = h /\ OperationOn(g)) =>
          /\ debounce'.pending
          /\ debounce'.args = h
          /\ debounce'.sinceCall = debounce.sinceCall
    ]_vars

\* C18 - One subscription: at most one realtime channel is subscribed, it
\* is the one the last run of the effect opened, and once the effect has
\* run for the current focus a channel is subscribed exactly when the
\* focused game has a remote identifier, for that game and that identifier;
\* a run of the effect closes the previous channel and leaves only the new
\* one.
OneSubscription ==
  /\ [](/\ Cardinality(channels) <= 1
        /\ channels \subseteq {channel}
        /\ channel = WantedChannel =>
             /\ (channels # {}) <=> (selected # None /\ Persisted(games, selected))
             /\ \A c \in channels :
                  c.gameId = selected /\ c.savedId = games[selected].savedId)
  /\ [][ SubscriptionEffect =>
           /\ channels' = {WantedChannel} \ {Nil}
           /\ channels \cap channels' = {}
      ]_vars

\* g1 was watched until the row's deletion removed it; the focus is now on
\* g2 and the only channel is the one of g2's row
OneSubscriptionWitness ==
  /\ games["g1"] = Nil
  /\ selected = "g2"
  /\ channels = {[gameId |-> "g2", savedId |-> "r2"]}

\* C21 - Echo discard: handling the notification of this client's own push
\* merges nothing: the game, its factories and its solvers are unchanged,
\* whether the push response has been handled before or not.
EchoDiscarded ==
  [][ \A n \in notifs : \A keep \in BOOLEAN :
        (HandleRemoteUpdate(n, keep) /\ n.own) =>
          UNCHANGED <<games, factories, solvers>>
    ]_vars

\* C27 - Applied children: after a merge is applied for an inbound update,
\* every factory and solver of the merged result is stored under its id with
\* the merged content, and no factory or solver of a factory that the game
\* listed before the update and that is absent from the merged result
\* remains stored.
AppliedChildren ==
  [][ \A n \in notifs : \A keep \in BOOLEAN : \A c \in channels :
        (/\ HandleRemoteUpdate(n, keep)
         /\ games[c.gameId] # Nil
         /\ n.version > games[c.gameId].version) =>
          LET g == c.gameId
              merged == mergeGameState(serializeGame(g), n.data)
              before == Range(games[g].factoriesIds)
          IN \A f \in AllFactoryIds :
               /\ f \in IdSet(merged.factories) =>
                    factories'[f] = LastEntityOf(merged.factories, f)
               /\ f \in IdSet(merged.solvers) =>
                    solvers'[f] = LastEntityOf(merged.solvers, f)
               /\ f \in before \ IdSet(merged.factories) => factories'[f] = Nil
               /\ f \in before \ IdSet(merged.solvers) => solvers'[f] = Nil
    ]_vars

\* C28 - Unknown game: an inbound update delivered for a game that is not
\* in the store changes nothing: no game appears, games, factories and
\* solvers are unchanged, the pending timer stays as it is and nothing is
\* sent.
UnknownGameDiscarded ==
  [][ \A n \in notifs : \A keep \in BOOLEAN : \A c \in channels :
        (HandleRemoteUpdate(n, keep) /\ c.savedId = n.savedId /\ games[c.gameId] = Nil) =>
          UNCHANGED <<games, factories, solvers, debounce, inflight, isSaving, syncError, selected>>
    ]_vars

\* the update of a removed game was handled while the timer of the other
\* game was pending, and the timer is still pending
UnknownGameDiscardedWitness ==
  /\ last.op = "update"
  /\ last.did = "unknown"
  /\ last.pending
  /\ debounce.pending
  /\ games["g1"] = Nil

\* C30 - Error flag: the completion of a failed push leaves an error set
\* for the game in the store, and the error of a game is cleared only by
\* the successful completion of a push of that game.
ErrorFlag ==
  [][ /\ \A i \in DOMAIN inflight :
           FailedResponse(i) => syncError'[inflight[i].gameId] # None
      /\ \A g \in GameIds :
           (syncError[g] # None /\ syncError'[g] = None) =>
             \E i \in DOMAIN inflight : inflight[i].gameId = g /\ Response(i)
    ]_vars

\* the step persists a payload to row r: the server executes this client's
\* update request or another collaborator's
Persist(r) ==
  \/ \E i \in DOMAIN inflight : inflight[i].savedId = r /\ ServerProcess(i)
  \/ \E v \in 2..MaxVersion, d \in OtherData : OtherWrite(r, v, d)

\* C24 - Row version: every successful persist raises the version stored in
\* the row by exactly 1, so no version is stamped on two persisted payloads.
RowVersionIncrements ==
  [][ \A r \in SavedIds :
        Persist(r) => rows'[r].version = rows[r].version + 1
    ]_vars

\* factory f, created or edited by this client in game g, is stored and
\* triggerSync has been called for it: the timer is pending for g
EditScheduled(g, f) ==
  /\ debounce.pending
  /\ debounce.args = g
  /\ session # None
  /\ Persisted(games, g)
  /\ f \in Range(games[g].factoriesIds)
  /\ factories[f] # Nil
  /\ factories[f].body = "a"

\* factory f as this client wrote it is in the payload of a request sent
PushedInPayload(f) ==
  \E i \in DOMAIN inflight :
    \E k \in DOMAIN inflight[i].data.factories :
      inflight[i].data.factories[k] = [id |-> f, body |-> "a"]

\* the stored factory f is a collaborator's entity
Superseded(f) ==
  IF factories[f] = Nil THEN FALSE ELSE factories[f].body = "b"

\* no further push can be sent within the bounds
PushBoundReached(g) ==
  IF games[g] = Nil THEN TRUE
  ELSE games[g].version >= MaxVersion \/ Len(inflight) >= MaxInflight

\* C23 - No local edit is lost: once triggerSync has been called for an edit
\* of a persisted game with a session, the edited factory is eventually in
\* the payload of a push, or is replaced by a remote factory of the same id,
\* without any further local edit.
NoEditLost ==
  \A f \in AllFactoryIds :
    EditScheduled("g1", f) ~>
      (PushedInPayload(f) \/ Superseded(f) \/ PushBoundReached("g1"))

\* C36 - Inbound updates never push: a step that handles an inbound update,
\* discarded or merged, adds no request and leaves the debounce as it was or
\* idle; a request is added only by the timer's run or by a flush, and the
\* timer is started only by a triggerSync call.
InboundNeverPushes ==
  [][/\ (last'.op = "update") =>
          (/\ inflight' = inflight
           /\ isSaving' = isSaving
           /\ debounce' \in {debounce, DebounceIdle})
     /\ (Len(inflight') > Len(inflight)) => (last'.op \in {"fire", "flush"})
     /\ (debounce'.pending /\ debounce' # debounce /\ debounce'.sinceCall = 0)
          => (last' = LastOther)]_vars

\* an update has been merged while the timer was pending: the timer is gone
\* and nothing is in flight
InboundNeverPushesWitness ==
  /\ last.op = "update"
  /\ last.did = "merged"
  /\ last.pending
  /\ ~debounce.pending
  /\ inflight = <<>>

\* C35 - Syncing flag: the flag isSaving is TRUE exactly while at least one
\* push request is in flight, also when two pushes overlap.
SyncingFlagExact == isSaving <=> (inflight # <<>>)

\* C31 - Push error containment: the completion of a request, successful or
\* failed, removes the request, lowers the syncing flag and leaves the
\* debounce, the session and the remote identifiers alone; and the timer's
\* run on a persisted game with a session sends a request, whatever
\* happened to earlier pushes.
PushContained ==
  [][/\ (last'.op = "response") =>
          (/\ Len(inflight') = Len(inflight) - 1
           /\ isSaving' = FALSE
           /\ debounce' = debounce
           /\ session' = session
           /\ \A g \in GameIds : Persisted(games, g) => Persisted(games', g))
     /\ (last'.op = "fire" /\ PushReady(debounce.args)) =>
          (/\ last'.did = "sent"
           /\ Len(inflight') = Len(inflight) + 1
           /\ NewRequest.gameId = debounce.args
           /\ isSaving')]_vars

\* a push wrote the row and then failed (the local version is still 1 and
\* its request is gone); the timer has run since and has sent the request
\* that is now in flight
PushContainedWitness ==
  /\ last.op = "fire"
  /\ last.did = "sent"
  /\ games["g1"].version = 1
  /\ Len(inflight) = 1
  /\ inflight[1].stage = "sent"
  /\ \E n \in notifs : n.type = "UPDATE" /\ n.own /\ n.savedId = "r1"
  /\ isSaving

\* game g is in the store without a remote identifier
Unpersisted(g) == games[g] # Nil /\ games[g].savedId = None

\* C33 - No sync without a remote identifier: for a game without a remote
\* identifier no request is in flight, no timer is pending and no channel
\* is open, and no step changes the game (no merge is applied to it).
UnpersistedNeverSynced ==
  /\ [](\A g \in GameIds :
          Unpersisted(g) =>
            /\ \A i \in DOMAIN inflight : inflight[i].gameId # g
            /\ ~(debounce.pending /\ debounce.args = g)
            /\ \A c \in channels \cup ({channel} \ {Nil}) : c.gameId # g)
  /\ [][\A g \in GameIds : Unpersisted(g) => games'[g] = games[g]]_vars

\* g2 has no remote identifier and is focused: its flush has sent nothing,
\* no channel is open and the update of g1's row in transit is not for it
UnpersistedNeverSyncedWitness ==
  /\ Unpersisted("g2")
  /\ Persisted(games, "g1")
  /\ selected = "g2"
  /\ channel = Nil
  /\ channels = {}
  /\ last.op = "flush"
  /\ last.did = "skipped"
  /\ inflight = <<>>
  /\ \E n \in notifs : n.type = "UPDATE" /\ n.savedId = "r1"

\* C34 - Convergence of concurrent creations: when this client has created
\* its factory and the handling of the collaborator's update leaves no
\* request in flight, no timer pending and no notification in transit,
\* this client's game holds both new factories.
ConcurrentCreationsConverge ==
  [][\A n \in notifs :
       (/\ HandleRemoteUpdate(n, FALSE)
        /\ ~n.own
        /\ \A f \in AllFactoryIds : factories[f] # Nil
        /\ inflight' = <<>>
        /\ notifs' = {}
        /\ ~debounce'.pending)
       => \A f \in StoredFactoryIds :
            /\ factories'[f] # Nil
            /\ f \in Range(games'["g1"].factoriesIds)]_vars

\* a push of game g is started by the step: the timer's run or a flush
PushStarts(g) ==
  \/ syncGameToRemote /\ debounce.args = g
  \/ syncGameImmediately(g)

\* C13 - No session, no push: the run of the debounced push and the
\* immediate push, started while no session is active, send no request,
\* leave the game, its version, its factories and its solvers as they are
\* and do not raise the syncing flag.
NoSessionNoPush ==
  [][ \A g \in GameIds :
        (PushStarts(g) /\ session = None) =>
          UNCHANGED <<inflight, games, factories, solvers, isSaving, syncError, rows, notifs>>
    ]_vars

\* the timer of a persisted game has run while signed out, and nothing was sent
NoSessionNoPushWitness ==
  /\ last.op = "fire"
  /\ last.did = "skipped"
  /\ session = None
  /\ Persisted(games, "g1")
  /\ games["g1"].factoriesIds # <<>>

\* C14 - Push versioning: a push started for a persisted game with a session
\* sends one request keyed by the game's remote identifier with the local
\* version + 1, and the successful completion stores the version the row
\* returned as the local version.
PushVersioning ==
  [][ /\ \A g \in GameIds :
           (PushStarts(g) /\ Persisted(games, g) /\ session # None) =>
             /\ Len(inflight') = Len(inflight) + 1
             /\ NewRequest.savedId = games[g].savedId
             /\ NewRequest.version = games[g].version + 1
      /\ \A i \in DOMAIN inflight :
           (Response(i) /\ games[inflight[i].gameId] # Nil) =>
             /\ inflight[i].echo = inflight[i].version
             /\ games'[inflight[i].gameId].version = inflight[i].echo
    ]_vars

\* a push from version 1 has completed: the local version is the 2 returned
PushVersioningWitness ==
  /\ last.op = "response"
  /\ last.did = "ok"
  /\ games["g1"] # Nil
  /\ games["g1"].version = 2
  /\ rows["r1"] = [version |-> 2]

\* C15 - Failed push: the completion of a failed push leaves the game and
\* its version unchanged, so a push started next, from the version the
\* failed one started from, sends the same version.
FailedPushKeepsVersion ==
  [][ \A i \in DOMAIN inflight :
        (FailedResponse(i) /\ games[inflight[i].gameId] # Nil) =>
          LET g == inflight[i].gameId IN
          /\ UNCHANGED games
          /\ games[g].version + 1 = inflight[i].version =>
                games'[g].version + 1 = inflight[i].version
    ]_vars

\* the only push, sent from version 1, has failed: the version is still 1
FailedPushKeepsVersionWitness ==
  /\ last.op = "response"
  /\ last.did = "failed"
  /\ inflight = <<>>
  /\ games["g1"] # Nil
  /\ games["g1"].version = 1
  /\ games["g1"].factoriesIds # <<>>

\* C16 - Flush: an immediate push of a persisted game with a session clears
\* the pending timer and starts exactly one push in the same step; and a
\* timer becomes pending only by a triggerSync call, so no debounced push
\* follows the flush without one.
FlushCancelsAndPushes ==
  [][ /\ \A g \in GameIds :
           (syncGameImmediately(g) /\ Persisted(games, g) /\ session # None) =>
             /\ ~debounce'.pending
             /\ Len(inflight') = Len(inflight) + 1
             /\ NewRequest.gameId = g
             /\ NewRequest.data = serializeGame(g)
      /\ (~debounce.pending /\ debounce'.pending) =>
           \/ \E t \in GameIds \cup {None} : TriggerSync(t)
           \/ \E g \in GameIds, f \in AllFactoryIds : CreateFactory(g, f) \/ EditFactory(g, f)
      /\ syncGameToRemote => debounce.pending
    ]_vars

\* a flush has cancelled a pending timer and has sent the game
FlushCancelsAndPushesWitness ==
  /\ last.op = "flush"
  /\ last.did = "sent"
  /\ last.pending
  /\ ~debounce.pending
  /\ Len(inflight) >= 1

-----------------------------------------------------------------------------
(* MergeSpec: the pure functions applied to bounded inputs *)

\* the snapshots given to the functions: every sequence of at most MaxLen
\* factories with the given contents (duplicate identifiers included), at
\* most one solver, a child list that matches the factories or is empty,
\* and one of the given names; the contents tell the side an entity came
\* from
Snapshots(names, bodies, solverBodies) ==
  UNION {[game : [name : names, factoriesIds : {IdsOf(fs), <<>>}],
          factories : {fs},
          solvers : SeqsUpTo([id : FactoryIds, body : solverBodies], 1)]
         : fs \in SeqsUpTo([id : FactoryIds, body : bodies], MaxLen)}

MergeInit ==
  /\ mLocal \in Snapshots({"n1"}, {"a"}, {"sa"})
  /\ mRemote \in Snapshots(Names, {"b"}, {"sb"})
  /\ mOut = [op |-> None]
  /\ SyncParked
  /\ AuthParked

Merge ==
  /\ mOut.op = None
  /\ mOut' = [op |-> "merge", result |-> mergeGameState(mLocal, mRemote)]
  /\ UNCHANGED <<mLocal, mRemote>>
  /\ UNCHANGED syncVars
  /\ UNCHANGED authVars

MergeSelf ==
  /\ mOut.op = None
  /\ mOut' = [op |-> "mergeSelf", result |-> mergeGameState(mLocal, mLocal)]
  /\ UNCHANGED <<mLocal, mRemote>>
  /\ UNCHANGED syncVars
  /\ UNCHANGED authVars

\* the two diagnostic functions and the merge, on the same pair
Diagnose ==
  /\ mOut.op = None
  /\ mOut' = [op |-> "diagnose",
              changed |-> hasLocalChanges(mLocal, mRemote),
              ids |-> getLocalOnlyFactoryIds(mLocal, mRemote),
              result |-> mergeGameState(mLocal, mRemote)]
  /\ UNCHANGED <<mLocal, mRemote>>
  /\ UNCHANGED syncVars
  /\ UNCHANGED authVars

MergeNext == Merge \/ MergeSelf \/ Diagnose

MergeSpec == MergeInit /\ [][MergeNext]_vars

MergeIdempotent ==
  mOut.op = "mergeSelf" => mOut.result = mLocal

MergeIdempotentWitness ==
  /\ mOut.op = "mergeSelf"
  /\ Len(mLocal.factories) = 2
  /\ Len(mLocal.solvers) = 1
  /\ mLocal.game.factoriesIds # <<>>

\* the factories of local whose id no factory of remote carries
LocalOnly(local, remote) ==
  SelectSeq(local.factories, LAMBDA f : f.id \notin IdSet(remote.factories))

\* C25 - Deleted factories: a factory that local has and remote does not
\* have is absent from the merged factories, as the documentation of
\* mergeGameState says of deleted factories.
MergeDropsLocalOnly ==
  mOut.op = "merge" =>
    IdSet(mOut.result.factories) \cap (IdSet(mLocal.factories) \ IdSet(mRemote.factories)) = {}

\* C26 - Merged child list: the merged factoriesIds is remote's list followed
\* by the ids of the local-only factories in local order; and for inputs with
\* unique ids whose child lists name their factories, it has no duplicate and
\* is the id list of the merged factories.
MergedChildList ==
  mOut.op = "merge" =>
    LET ids == mOut.result.game.factoriesIds IN
    /\ ids = mRemote.game.factoriesIds \o IdsOf(LocalOnly(mLocal, mRemote))
    /\ (/\ UniqueIds(mLocal.factories) /\ UniqueIds(mRemote.factories)
        /\ mLocal.game.factoriesIds = IdsOf(mLocal.factories)
        /\ mRemote.game.factoriesIds = IdsOf(mRemote.factories)) =>
          /\ \A i, j \in DOMAIN ids : ids[i] = ids[j] => i = j
          /\ ids = IdsOf(mOut.result.factories)

\* remote has a factory and local has a factory of its own, whose id comes
\* last in the merged list
MergedChildListWitness ==
  /\ mOut.op = "merge"
  /\ UniqueIds(mLocal.factories) /\ UniqueIds(mRemote.factories)
  /\ mLocal.game.factoriesIds = IdsOf(mLocal.factories)
  /\ mRemote.game.factoriesIds = IdsOf(mRemote.factories)
  /\ Len(mRemote.factories) >= 1
  /\ Len(LocalOnly(mLocal, mRemote)) >= 1
  /\ Len(mOut.result.game.factoriesIds) = Len(mRemote.factories) + Len(LocalOnly(mLocal, mRemote))

\* C29 - Diagnostics: hasLocalChanges is true exactly when there is a
\* local-only factory or the two factory counts differ, and
\* getLocalOnlyFactoryIds is the list mergeGameState appends to remote's
\* factoriesIds.
DiagnosticsAgree ==
  mOut.op = "diagnose" =>
    /\ mOut.changed <=> (mOut.ids # <<>> \/ Len(mLocal.factories) # Len(mRemote.factories))
    /\ mOut.result.game.factoriesIds = mRemote.game.factoriesIds \o mOut.ids

\* no local-only factory, yet a change is reported because remote has more
\* factories; and a pair with a local-only factory is covered by the formula
DiagnosticsAgreeWitness ==
  /\ mOut.op = "diagnose"
  /\ mOut.ids = <<>>
  /\ mOut.changed
  /\ Len(mLocal.factories) >= 1

\* C32 - Merged solvers: the merged solvers start with remote's solvers,
\* followed only by local solvers of local-only factories; each such local
\* solver is there unless remote has a solver of the same id; a local
\* solver of a factory that remote has is not in the result; and no id
\* occurs twice.
MergedSolvers ==
  mOut.op = "merge" =>
    LET m == mOut.result.solvers
        localOnlyIds == IdSet(LocalOnly(mLocal, mRemote))
    IN /\ Len(m) >= Len(mRemote.solvers)
       /\ SubSeq(m, 1, Len(mRemote.solvers)) = mRemote.solvers
       /\ \A k \in DOMAIN m :
            k > Len(mRemote.solvers) =>
              m[k] \in Range(mLocal.solvers) /\ m[k].id \in localOnlyIds
       /\ \A s \in Range(mLocal.solvers) :
            /\ (s.id \in localOnlyIds /\ s.id \notin IdSet(mRemote.solvers)) => s \in Range(m)
            /\ s.id \in IdSet(mRemote.factories) => s \notin Range(m)
       /\ \A id \in IdSet(m) : Count(m, id) = 1

\* local has a solver for a factory remote has too, and remote has a solver
\* of its own: only remote's solver is in the result
MergedSolversWitness ==
  /\ mOut.op = "merge"
  /\ Len(mLocal.solvers) = 1
  /\ Len(mRemote.solvers) = 1
  /\ mLocal.solvers[1].id \in IdSet(mLocal.factories) \cap IdSet(mRemote.factories)
  /\ mRemote.solvers[1].id # mLocal.solvers[1].id
  /\ mOut.result.solvers = mRemote.solvers

-----------------------------------------------------------------------------
(* AuthSpec: the refresh timer of AuthSessionManager                       *)
(* (supabase/migrations/001_initial_schema.sql 337-424)                    *)

\* the token is refreshed this long before it expires
REFRESH_MARGIN_MS == 300000

\* a session expires this many seconds after the moment it is issued: in the
\* past, now, just inside and outside the margin, and an hour ahead
ExpiryAhead == {0 - 100, 0, 299, 300, 301, 3600}

\* the sessions the auth client can hand over at time nowMs; expires_at is
\* in seconds, and 0 stands for a session without expires_at
SessionsAt(nowMs) ==
  {[expires_at |-> (nowMs \div 1000) + a] : a \in ExpiryAhead} \cup {[expires_at |-> 0]}

\* the truthiness test "session?.expires_at"
HasExpiry(s) == s # Nil /\ s.expires_at # 0

RefreshIn_noClamp(expiresAt, nowMs) == (expiresAt * 1000 - nowMs) - REFRESH_MARGIN_MS

\* refreshIn of scheduleTokenRefresh: Math.max(timeUntilExpiry - margin, 0)
RefreshIn(expiresAt, nowMs) ==
  LET timeUntilExpiry == expiresAt * 1000 - nowMs
  IN Max(timeUntilExpiry - REFRESH_MARGIN_MS, 0)

ClearTimeout_skip(ts, ref) == ts

\* clearTimeout(refreshTimeoutRef.current): the timer the reference names
\* leaves the pending timers (a timer that has fired is not among them)
ClearTimeout(ts, ref) == {t \in ts : t.id # ref}

\* the moment a pending timer is due
DueAt(t) == t.setAt + t.refreshIn

AuthLastNone == [op |-> "none"]

\* the component has mounted: getSession() is awaited, the auth listener is
\* subscribed, no timer has been set
AuthInit ==
  /\ MergeParked
  /\ SyncParked
  /\ now = StartMs
  /\ tokenSession = Nil
  /\ timers = {}
  /\ refreshTimeoutRef = 0
  /\ nextTimer = 1
  /\ loading = TRUE
  /\ refreshing = 0
  /\ mounted = TRUE
  /\ signedOut = FALSE
  /\ authLast = AuthLastNone

\* scheduleTokenRefresh(expiresAt): the referenced timer is cleared, then a
\* timer is set for refreshIn milliseconds from now and the reference names it
scheduleTokenRefresh(expiresAt) ==
  LET kept == IF refreshTimeoutRef # 0 THEN ClearTimeout(timers, refreshTimeoutRef) ELSE timers
      timer == [id |-> nextTimer, setAt |-> now, expiresAt |-> expiresAt,
                refreshIn |-> RefreshIn(expiresAt, now)]
  IN /\ nextTimer <= MaxTimers
     /\ timers' = kept \cup {timer}
     /\ refreshTimeoutRef' = nextTimer
     /\ nextTimer' = nextTimer + 1
     /\ authLast' = [op |-> "schedule", cleared |-> kept # timers]

\* the then-callback of getSession(): the session is stored and, if it has
\* an expiry, the refresh is scheduled
GetSessionResolved(s) ==
  /\ loading
  /\ loading' = FALSE
  /\ tokenSession' = s
  /\ IF HasExpiry(s)
     THEN scheduleTokenRefresh(s.expires_at)
     ELSE /\ UNCHANGED <<timers, refreshTimeoutRef, nextTimer>>
          /\ authLast' = AuthLastNone
  /\ UNCHANGED <<now, refreshing, mounted, signedOut>>

\* the catch-callback of getSession(): the failure is logged
GetSessionRejected ==
  /\ loading
  /\ loading' = FALSE
  /\ authLast' = AuthLastNone
  /\ UNCHANGED <<now, tokenSession, timers, refreshTimeoutRef, nextTimer, refreshing,
                 mounted, signedOut>>

\* the onAuthStateChange listener: SIGNED_OUT clears the referenced timer,
\* the session is stored, and SIGNED_IN and TOKEN_REFRESHED with an expiry
\* schedule the refresh
AuthStateChange(event, s) ==
  /\ mounted
  /\ event = "SIGNED_OUT" => s = Nil
  /\ event \in {"SIGNED_IN", "TOKEN_REFRESHED"} => s # Nil
  /\ tokenSession' = s
  /\ IF HasExpiry(s) /\ event \in {"SIGNED_IN", "TOKEN_REFRESHED"}
     THEN scheduleTokenRefresh(s.expires_at)
     ELSE /\ timers' = IF event = "SIGNED_OUT" /\ refreshTimeoutRef # 0
                       THEN ClearTimeout(timers, refreshTimeoutRef)
                       ELSE timers
          /\ authLast' = [op |-> "event", cleared |-> timers' # timers]
          /\ UNCHANGED <<refreshTimeoutRef, nextTimer>>
  /\ signedOut' = IF event = "SIGNED_OUT" THEN TRUE
                  ELSE IF event \in {"SIGNED_IN", "TOKEN_REFRESHED"} THEN FALSE
                  ELSE signedOut
  /\ UNCHANGED <<now, loading, refreshing, mounted>>

\* a pending timer is due: its callback starts and awaits refreshSession()
TimerFires(t) ==
  /\ t \in timers
  /\ now >= DueAt(t)
  /\ timers' = timers \ {t}
  /\ refreshing' = refreshing + 1
  /\ authLast' = [op |-> "fire", id |-> t.id, waited |-> now - t.setAt,
                  ahead |-> t.expiresAt * 1000 - t.setAt]
  /\ UNCHANGED <<now, tokenSession, refreshTimeoutRef, nextTimer, loading, mounted,
                 signedOut>>

\* refreshSession() returned a session: it is stored and, if it has an
\* expiry, the next refresh is scheduled
RefreshSucceeded(s) ==
  /\ refreshing > 0
  /\ refreshing' = refreshing - 1
  /\ tokenSession' = s
  /\ IF HasExpiry(s)
     THEN scheduleTokenRefresh(s.expires_at)
     ELSE /\ UNCHANGED <<timers, refreshTimeoutRef, nextTimer>>
          /\ authLast' = AuthLastNone
  /\ UNCHANGED <<now, loading, mounted, signedOut>>

RefreshFailed_reschedule ==
  /\ refreshing > 0
  /\ refreshing' = refreshing - 1
  /\ nextTimer <= MaxTimers
  /\ timers' = timers \cup {[id |-> nextTimer, setAt |-> now, expiresAt |-> now \div 1000,
                              refreshIn |-> 0]}
  /\ refreshTimeoutRef' = nextTimer
  /\ nextTimer' = nextTimer + 1
  /\ authLast' = [op |-> "refreshFailed"]
  /\ UNCHANGED <<now, tokenSession, loading, mounted, signedOut>>

\* refreshSession() returned null: a warning is logged, nothing is scheduled
RefreshFailed ==
  /\ refreshing > 0
  /\ refreshing' = refreshing - 1
  /\ authLast' = [op |-> "refreshFailed"]
  /\ UNCHANGED <<now, tokenSession, timers, refreshTimeoutRef, nextTimer, loading,
                 mounted, signedOut>>

\* the cleanup of the effect: the auth listener is unsubscribed and the
\* referenced timer is cleared
Unmount ==
  /\ mounted
  /\ mounted' = FALSE
  /\ timers' = IF refreshTimeoutRef # 0 THEN ClearTimeout(timers, refreshTimeoutRef) ELSE timers
  /\ authLast' = [op |-> "unmount", cleared |-> timers' # timers]
  /\ UNCHANGED <<now, tokenSession, refreshTimeoutRef, nextTimer, loading, refreshing,
                 signedOut>>

\* time passes by ms milliseconds, never beyond the moment a pending timer
\* is due: a due timer runs before more time passes
Pass(ms) ==
  /\ \A t \in timers : now + ms <= DueAt(t)
  /\ now' = now + ms
  /\ authLast' = AuthLastNone
  /\ UNCHANGED <<tokenSession, timers, refreshTimeoutRef, nextTimer, loading, refreshing,
                 mounted, signedOut>>

\* a second passes, early in the run
PassSecond ==
  /\ now + 1000 <= StartMs + MaxPassMs
  /\ Pass(1000)

\* time passes until the next pending timer is due
PassToDue ==
  \E t \in timers :
    /\ DueAt(t) > now
    /\ Pass(DueAt(t) - now)

AuthEvents == {"SIGNED_IN", "TOKEN_REFRESHED", "SIGNED_OUT", "USER_UPDATED"}

AuthNext ==
  /\ \/ \E s \in SessionsAt(now) \cup {Nil} : GetSessionResolved(s)
     \/ GetSessionRejected
     \/ \E event \in AuthEvents, s \in SessionsAt(now) \cup {Nil} : AuthStateChange(event, s)
     \/ \E t \in timers : TimerFires(t)
     \/ \E s \in SessionsAt(now) : RefreshSucceeded(s)
     \/ RefreshFailed
     \/ Unmount
     \/ PassSecond
     \/ PassToDue
  /\ UNCHANGED mergeVars
  /\ UNCHANGED syncVars

AuthSpec == AuthInit /\ [][AuthNext]_vars

\* C9 - Refresh timing: a timer set when a session's expiry is observed
\* waits max(0, (expiry - now) - 300 s): 3300 s for an expiry 3600 s ahead,
\* nothing (and never a negative time) for an expiry less than 300 s ahead
\* or in the past; and its callback starts exactly that long after it was
\* set.
RefreshTiming ==
  /\ \A t \in timers :
       LET ahead == t.expiresAt * 1000 - t.setAt IN
       /\ t.refreshIn >= 0
       /\ t.refreshIn = IF ahead - 300000 > 0 THEN ahead - 300000 ELSE 0
       /\ ahead = 3600000 => t.refreshIn = 3300000
       /\ ahead < 300000 => t.refreshIn = 0
  /\ authLast.op = "fire" =>
       authLast.waited = IF authLast.ahead - 300000 > 0 THEN authLast.ahead - 300000 ELSE 0

\* the callback of a timer set for an expiry an hour ahead has started,
\* 3300 s after the timer was set
RefreshTimingWitness ==
  /\ authLast.op = "fire"
  /\ authLast.ahead = 3600000
  /\ authLast.waited = 3300000

\* C10 - One refresh timer: at most one refresh timer is pending, and it is
\* the one the reference names, which is the last one scheduled; a timer a
\* reschedule has superseded is no longer pending, so it never fires.
OneRefreshTimer ==
  /\ Cardinality(timers) <= 1
  /\ \A t \in timers : t.id = refreshTimeoutRef /\ t.id = nextTimer - 1
  /\ authLast.op = "fire" => authLast.id = refreshTimeoutRef

\* a reschedule has just cancelled the timer that was pending and has set
\* the new one
OneRefreshTimerWitness ==
  /\ authLast.op = "schedule"
  /\ authLast.cleared
  /\ Cardinality(timers) = 1
  /\ refreshTimeoutRef >= 2

\* C11 - Sign-out teardown: while the scheduler is signed out (SIGNED_OUT
\* has been handled, no sign-in since) and the initial getSession() has
\* settled, no step sets a refresh timer, also when a refresh was awaited at
\* the sign-out.
SignOutTeardown ==
  [][ (signedOut /\ signedOut' /\ ~loading /\ timers = {}) => timers' = {} ]_vars

\* C12 - Refresh failure is terminal: the step that handles a failed
\* refresh ends that refresh without another one, sets no timer and leaves
\* the stored session; and while nothing is awaited, a timer appears only
\* by a SIGNED_IN or TOKEN_REFRESHED event that delivers a session.
RefreshFailureTerminal ==
  [][ /\ RefreshFailed =>
           /\ refreshing' = refreshing - 1
           /\ UNCHANGED <<timers, refreshTimeoutRef, nextTimer, tokenSession>>
      /\ (timers = {} /\ refreshing = 0 /\ ~loading /\ timers' # {}) =>
           \E event \in {"SIGNED_IN", "TOKEN_REFRESHED"} :
             /\ AuthStateChange(event, tokenSession')
             /\ HasExpiry(tokenSession')
    ]_vars

\* the only awaited refresh has failed: no timer is pending and the session
\* stored before the failure is still there
RefreshFailureTerminalWitness ==
  /\ authLast.op = "refreshFailed"
  /\ timers = {}
  /\ refreshing = 0
  /\ HasExpiry(tokenSession)

\* C20 - Scheduler teardown: after the cleanup of the effect no refresh
\* timer is pending, so none fires and none has been created, whatever was
\* awaited at the cleanup.
TeardownCancels ==
  ~mounted => timers = {}

\* the step hands session s to setSession: the result of the initial
\* getSession, an auth event that carries a session, or a successful refresh
SessionSet(s) ==
  \/ GetSessionResolved(s)
  \/ \E event \in AuthEvents : AuthStateChange(event, s)
  \/ RefreshSucceeded(s)

\* C22 - Replacement cancels the prior timer: in every step that stores a
\* session, the timers that were pending before the step are no longer
\* pending after it, and when the session has no expiry no timer is pending
\* after it.
ReplaceCancelsPrior ==
  [][ \A s \in SessionsAt(now) :
        SessionSet(s) =>
          /\ timers \cap timers' = {}
          /\ ~HasExpiry(s) => timers' = {}
    ]_vars

=============================================================================
